---- MODULE Spec2Model ----
(***************************************************************************)
(* Excel extract API: the position-based service (excel_api_service.py,    *)
(* FastAPI) and the name-based service (flask_app.py, Flask).              *)
(*                                                                         *)
(* Strings are sequences of tokens, so that a substring test is a          *)
(* contiguous-subsequence test.  The module's strings are ASCII; the       *)
(* source's Chinese literals are transliterated:                           *)
(*   "SurveyResultsTable"   = "测量成果表"   (format name)                 *)
(*   "SlopeInspectionTable" = "边坡检查表"   (format name)                 *)
(*   "Unknown"              = "未知",  "UnknownFormat" = "未知格式"        *)
(*   <<"CeLiang","ChengGuo","Biao">> = the marker text "测量成果表"        *)
(*   "NoDataExtracted"      = "未能提取到任何数据"                         *)
(*   "ParseExcelFailed"     = "解析Excel失败: ..."                         *)
(*   "Recognized"           = "识别为【..】，成功提取 n 行数据"            *)
(*   "TiQuShuJu"            = "提取数据"  (sheet name / filename prefix)   *)
(***************************************************************************)
EXTENDS Integers, Sequences, FiniteSets, TLC

VARIABLES
    svc,            \* the service handling the request, "idle" between two
    request,        \* the request body
    net,            \* what requests.get answers for the request's file_url
    response,       \* the handler's response
    locals,         \* the handler's local variables at its return
    clock,          \* the instant datetime.now() gave the handler
    EXCEL_FORMATS,  \* flask_app.py's module-level format table
    slots           \* the requests in flight (concurrent specification)

vars == <<svc, request, net, response, locals, clock, EXCEL_FORMATS, slots>>

(***************************************************************************)
(* Bounds of the model                                                     *)
(***************************************************************************)
MaxCols == 16       \* widest sheet given to the position-based service
MaxSurveyCols == 6  \* widest of the long sheets
MaxWideRows == 1    \* most rows under the header of a wide sheet
MinMeta == 5        \* fewest rows between the first row and the data rows
MaxMeta == 7        \* most rows between the first row and the data rows
MaxData == 2        \* most data rows after the meta rows
MaxClock == 1       \* datetime.now() answers an instant of 0..MaxClock
MaxHdr == 3         \* widest header given to the name-based service
MaxCustom == 2      \* longest caller-supplied columns list
MaxRows == 2        \* most data rows given to the name-based service

(***************************************************************************)
(* Text                                                                    *)
(***************************************************************************)
Range(s) == {s[i] : i \in DOMAIN s}

\* Python's `marker in text` on strings
Contains(marker, text) ==
    \E i \in 1..(Len(text) - Len(marker) + 1) :
        SubSeq(text, i, i + Len(marker) - 1) = marker

\* [f(x) for x in s if p(x)] keeps order
RECURSIVE SelectIdx(_, _)
SelectIdx(s, keep) ==
    IF s = <<>> THEN <<>>
    ELSE LET rest == SelectIdx(SubSeq(s, 1, Len(s) - 1), keep)
         IN IF Len(s) \in keep THEN Append(rest, s[Len(s)]) ELSE rest

(***************************************************************************)
(* Cells, files and pandas                                                 *)
(***************************************************************************)
StrCell(text) == [t |-> "str", v |-> text]
NumCell(n) == [t |-> "num", v |-> <<ToString(n)>>]
NaN == [t |-> "nan", v |-> <<>>]

\* str(cell)
PyStr(cell) == IF cell.t = "nan" THEN <<"nan">> ELSE cell.v

NumeralTokens == {"12", "7.5"}

\* pd.to_numeric(cell, errors='coerce') is not NaN
to_numeric_notna(cell) ==
    \/ cell.t = "num"
    \/ cell.t = "str" /\ Len(cell.v) = 1 /\ cell.v[1] \in NumeralTokens

\* a file: bytes that parse as one sheet of rectangular rows, or do not parse
NoFile == [parses |-> FALSE, rows |-> <<>>]
SheetFile(rows) == [parses |-> TRUE, rows |-> rows]

EmptyFrame == [ok |-> TRUE, columns |-> <<>>, rows |-> <<>>]
ParseFailure == [ok |-> FALSE, columns |-> <<>>, rows |-> <<>>]

HeaderLabel(cell, k) ==
    IF cell.t = "nan" THEN <<"Unnamed:", ToString(k - 1)>> ELSE cell.v

\* pd.read_excel(BytesIO(file), header=None|0, skiprows=n)
read_excel(file, header, skiprows) ==
    IF ~file.parses THEN ParseFailure
    ELSE LET body == SubSeq(file.rows, skiprows + 1, Len(file.rows))
         IN IF body = <<>> THEN EmptyFrame
            ELSE IF header
                 THEN [ok |-> TRUE,
                       columns |-> [k \in 1..Len(body[1]) |->
                                       HeaderLabel(body[1][k], k)],
                       rows |-> Tail(body)]
                 ELSE [ok |-> TRUE,
                       columns |-> [k \in 1..Len(body[1]) |->
                                       <<ToString(k - 1)>>],
                       rows |-> body]

\* df.iloc[:, idxs] is defined only when every index exists (else IndexError)
iloc_ok(df, idxs) == \A k \in 1..Len(idxs) : idxs[k] < Len(df.columns)

\* df.iloc[:, idxs] (0-based positions)
iloc_cols(df, idxs) ==
    [df EXCEPT !.columns = [k \in 1..Len(idxs) |-> df.columns[idxs[k] + 1]],
               !.rows = [r \in 1..Len(df.rows) |->
                           [k \in 1..Len(idxs) |-> df.rows[r][idxs[k] + 1]]]]

\* df[mask]: the rows whose cell at 0-based position `col` is numeric
filter_numeric(df, col) ==
    [df EXCEPT !.rows = SelectIdx(df.rows,
        {r \in 1..Len(df.rows) : to_numeric_notna(df.rows[r][col + 1])})]

\* extracted_df.to_excel(writer, index=False): header row, then the rows
to_excel(df) ==
    SheetFile(<<[k \in 1..Len(df.columns) |-> StrCell(df.columns[k])]>>
              \o df.rows)

\* base64 text: None, "", an encoding of bytes, or text that does not decode
NoneStr == [kind |-> "none", data |-> NoFile]
EmptyStr == [kind |-> "empty", data |-> NoFile]
GarbageStr == [kind |-> "garbage", data |-> NoFile]
b64encode(bytes) == [kind |-> "b64", data |-> bytes]
b64decode_ok(s) == s.kind = "b64"
b64decode(s) == s.data
Truthy(s) == s.kind \notin {"none", "empty"}

(***************************************************************************)
(* Requests and the network                                                *)
(***************************************************************************)
NoUrl == [kind |-> "empty"]
SomeUrl == [kind |-> "url"]

HTTP_OK == 200
HTTP_BAD_REQUEST == 400
HTTP_SERVER_ERROR == 500

\* what requests.get(url, timeout=30) does: an answer, or a Timeout raised
NetAnswer(status, content) ==
    [outcome |-> "answer", status_code |-> status, content |-> content]
NetTimeout == [outcome |-> "timeout", status_code |-> 0, content |-> NoFile]
NetUnused == NetAnswer(404, NoFile)

(***************************************************************************)
(* excel_api_service.py: the position-based service                        *)
(***************************************************************************)
FMT_SURVEY == "SurveyResultsTable"
FMT_SLOPE == "SlopeInspectionTable"
FMT_UNKNOWN == "Unknown"

MarkerEN == <<"Survey", "results">>
MarkerCN == <<"CeLiang", "ChengGuo", "Biao">>

SkipRows == 7
DiscriminantCol == 2
survey_target_columns == <<1, 2, 3, 4>>
survey_column_names ==
    <<<<"CeDianBianHao">>, <<"X_ZuoBiao">>, <<"Y_ZuoBiao">>, <<"GaoCheng_H">>>>
target_columns == <<0, 5, 8, 9, 10, 11, 12, 13>>
new_column_names ==
    <<<<"XianLuMing">>, <<"ChaoQianWa">>, <<"ShiCeX_LiCheng">>,
      <<"ShiCeY_PianJu">>, <<"ShiCeZ_ZuoBiao">>, <<"LiCheng">>,
      <<"PianJu">>, <<"SheJiBiaoGao">>>>

NoLocals ==
    [classified |-> FALSE, is_survey |-> FALSE, extracted |-> FALSE,
     valid_indices |-> <<>>, extracted_df |-> EmptyFrame]

FastMessage(kind, format_type, n, cause) ==
    [kind |-> kind, format_type |-> format_type, n |-> n, cause |-> cause]

\* lines 135-144: the handler's except clause
ExceptionResponse(cause) ==
    [status |-> HTTP_OK, success |-> FALSE, format_type |-> FMT_UNKNOWN,
     row_count |-> 0, file_base64 |-> EmptyStr, filename |-> <<>>,
     message |-> FastMessage("ParseExcelFailed", "", 0, cause),
     column_names |-> <<>>]

\* mutant: the no-data answer leaves success set
NoDataResponse_SuccessKept(format_type) ==
    [status |-> HTTP_OK, success |-> TRUE, format_type |-> format_type,
     row_count |-> 0, file_base64 |-> EmptyStr, filename |-> <<>>,
     message |-> FastMessage("NoDataExtracted", "", 0, ""),
     column_names |-> <<>>]

\* lines 103-112: nothing was extracted
NoDataResponse(format_type) ==
    [status |-> HTTP_OK, success |-> FALSE, format_type |-> format_type,
     row_count |-> 0, file_base64 |-> EmptyStr, filename |-> <<>>,
     message |-> FastMessage("NoDataExtracted", "", 0, ""),
     column_names |-> <<>>]

\* lines 114-133: serialize and answer
SuccessResponse(format_type, extracted_df, now) ==
    [status |-> HTTP_OK, success |-> TRUE, format_type |-> format_type,
     row_count |-> Len(extracted_df.rows),
     file_base64 |-> b64encode(to_excel(extracted_df)),
     filename |-> <<"TiQuShuJu", format_type, ToString(now), "xlsx">>,
     message |-> FastMessage("Recognized", format_type,
                             Len(extracted_df.rows), ""),
     column_names |-> extracted_df.columns]

\* lines 64-75: the bytes of the file, or the exception raised on the way
file_content(req, nw) ==
    IF Truthy(req.file_base64)
    THEN IF b64decode_ok(req.file_base64)
         THEN [exc |-> "", bytes |-> b64decode(req.file_base64)]
         ELSE [exc |-> "binascii.Error", bytes |-> NoFile]
    ELSE IF req.file_url.kind = "url"
    THEN IF nw.outcome = "timeout"
         THEN [exc |-> "requests.Timeout", bytes |-> NoFile]
         ELSE IF nw.status_code # HTTP_OK
         THEN [exc |-> "HTTPException(400): download failed", bytes |-> NoFile]
         ELSE [exc |-> "", bytes |-> nw.content]
    ELSE [exc |-> "HTTPException(400): no file", bytes |-> NoFile]

\* mutant: the first word of the English marker is enough
is_survey_FirstWord(first_cell) ==
    Contains(<<"Survey">>, first_cell) \/ Contains(MarkerCN, first_cell)

\* line 82
is_survey(first_cell) ==
    Contains(MarkerEN, first_cell) \/ Contains(MarkerCN, first_cell)

\* line 79
first_cell_of(df_raw) ==
    IF Len(df_raw.rows) > 0 THEN PyStr(df_raw.rows[1][1]) ELSE <<>>

\* lines 83-88
extract_survey(bytes) ==
    LET df == read_excel(bytes, FALSE, SkipRows)
    IN IF ~iloc_ok(df, <<DiscriminantCol>>)
       THEN [exc |-> "IndexError", valid_indices |-> <<>>,
             extracted_df |-> EmptyFrame, format_type |-> FMT_UNKNOWN]
       ELSE LET kept == filter_numeric(df, DiscriminantCol)
            IN IF ~iloc_ok(kept, survey_target_columns)
               THEN [exc |-> "IndexError", valid_indices |-> <<>>,
                     extracted_df |-> EmptyFrame, format_type |-> FMT_UNKNOWN]
               ELSE [exc |-> "", valid_indices |-> survey_target_columns,
                     extracted_df |->
                        [iloc_cols(kept, survey_target_columns)
                            EXCEPT !.columns = survey_column_names],
                     format_type |-> FMT_SURVEY]

\* mutant: the names are cut from the end of the list, not from its start
extract_slope_TailNames(bytes) ==
    LET df == read_excel(bytes, TRUE, 0)
        columns == df.columns
        valid_indices ==
            SelectIdx(target_columns,
                      {k \in 1..Len(target_columns) :
                          target_columns[k] < Len(columns)})
    IN [exc |-> "", valid_indices |-> valid_indices,
        extracted_df |->
            [iloc_cols(df, valid_indices)
                EXCEPT !.columns =
                    SubSeq(new_column_names,
                           Len(new_column_names) - Len(valid_indices) + 1,
                           Len(new_column_names))],
        format_type |-> FMT_SLOPE]

\* lines 92-101
extract_slope(bytes) ==
    LET df == read_excel(bytes, TRUE, 0)
        columns == df.columns
        valid_indices ==
            SelectIdx(target_columns,
                      {k \in 1..Len(target_columns) :
                          target_columns[k] < Len(columns)})
    IN [exc |-> "", valid_indices |-> valid_indices,
        extracted_df |->
            [iloc_cols(df, valid_indices)
                EXCEPT !.columns = SubSeq(new_column_names, 1,
                                          Len(valid_indices))],
        format_type |-> FMT_SLOPE]

\* lines 62-144: the whole handler; the response and the handler's locals
fastapi_extract(req, nw, now) ==
    LET got == file_content(req, nw)
    IN IF got.exc # ""
       THEN [resp |-> ExceptionResponse(got.exc), locals |-> NoLocals]
       ELSE
       LET df_raw == read_excel(got.bytes, FALSE, 0)
       IN IF ~df_raw.ok
          THEN [resp |-> ExceptionResponse("read_excel"), locals |-> NoLocals]
          ELSE
          LET survey == is_survey(first_cell_of(df_raw))
              ext == IF survey THEN extract_survey(got.bytes)
                     ELSE extract_slope(got.bytes)
              loc == [classified |-> TRUE, is_survey |-> survey,
                      extracted |-> ext.exc = "",
                      valid_indices |-> ext.valid_indices,
                      extracted_df |-> ext.extracted_df]
          IN IF ext.exc # ""
             THEN [resp |-> ExceptionResponse(ext.exc), locals |-> loc]
             ELSE IF Len(ext.extracted_df.rows) = 0
             THEN [resp |-> NoDataResponse(ext.format_type), locals |-> loc]
             ELSE [resp |-> SuccessResponse(ext.format_type,
                                            ext.extracted_df, now),
                   locals |-> loc]

(***************************************************************************)
(* flask_app.py: the name-based service                                    *)
(*   XuHao 序号, ZhuangHao 桩号, JianChaShiJian 检查时间, ZeRenRen 责任人, *)
(*   WenTiMiaoShu 问题描述, ZhengGaiCuoShi 整改措施, DianHao 点号,         *)
(*   X_ZuoBiao X坐标, Y_ZuoBiao Y坐标, GaoCheng 高程, BeiZhu 备注          *)
(***************************************************************************)
EXCEL_FORMATS_TABLE ==
    << [name |-> FMT_SLOPE,
        identifier_columns |-> <<<<"XuHao">>, <<"ZhuangHao">>>>,
        extract_columns |-> <<<<"XuHao">>, <<"ZhuangHao">>,
                              <<"JianChaShiJian">>, <<"ZeRenRen">>,
                              <<"WenTiMiaoShu">>, <<"ZhengGaiCuoShi">>>>],
       [name |-> FMT_SURVEY,
        identifier_columns |-> <<<<"DianHao">>, <<"X_ZuoBiao">>>>,
        extract_columns |-> <<<<"DianHao">>, <<"X_ZuoBiao">>, <<"Y_ZuoBiao">>,
                              <<"GaoCheng">>, <<"BeiZhu">>>>] >>

FMT_NONE == "None"
FMT_UNRECOGNIZED == "UnknownFormat"

\* lines 29-38: the first format whose identifier columns are all present
detect_excel_format(df, formats) ==
    LET columns == Range(df.columns)
        hits == {i \in 1..Len(formats) :
                    Range(formats[i].identifier_columns) \subseteq columns}
    IN IF hits # {}
       THEN LET i == CHOOSE j \in hits : \A k \in hits : j <= k
            IN [format_name |-> formats[i].name,
                columns |-> formats[i].extract_columns]
       ELSE [format_name |-> FMT_NONE, columns |-> df.columns]

\* mutant: a selection that finds no column drops the detected format from
\* the table
formats_after_select_Popped(data, df, formats) ==
    LET det == detect_excel_format(df, formats)
        wanted == IF data.columns.given /\ data.columns.names # <<>>
                  THEN data.columns.names ELSE det.columns
        missing == \A k \in 1..Len(wanted) : wanted[k] \notin Range(df.columns)
    IN IF det.format_name # FMT_NONE /\ missing
       THEN SelectIdx(formats, {i \in 1..Len(formats) :
                                   formats[i].name # det.format_name})
       ELSE formats

\* lines 88-95: the module-level table is read, never assigned
formats_after_select(data, df, formats) == formats

\* line 92: custom_columns if custom_columns else default_columns
columns_to_extract_of(custom_columns, default_columns) ==
    IF custom_columns.given /\ custom_columns.names # <<>>
    THEN custom_columns.names ELSE default_columns

\* mutant: the header is filtered by the request, so header order wins
available_columns_of_HeaderOrder(columns_to_extract, df) ==
    SelectIdx(df.columns,
              {k \in 1..Len(df.columns) :
                  df.columns[k] \in Range(columns_to_extract)})

\* line 95: [col for col in columns_to_extract if col in df.columns]
available_columns_of(columns_to_extract, df) ==
    SelectIdx(columns_to_extract,
              {k \in 1..Len(columns_to_extract) :
                  columns_to_extract[k] \in Range(df.columns)})

\* line 104: df[available_columns]
select_columns(df, names) ==
    LET pos(n) == CHOOSE k \in 1..Len(df.columns) : df.columns[k] = n
    IN [df EXCEPT !.columns = names,
                  !.rows = [r \in 1..Len(df.rows) |->
                              [k \in 1..Len(names) |->
                                  df.rows[r][pos(names[k])]]]]

FlaskMessage(kind, n, cause, columns) ==
    [kind |-> kind, n |-> n, cause |-> cause, columns |-> columns]

\* the two-key JSON body of every failure, with its HTTP status
FlaskFailure(status, message) ==
    [status |-> status, keys |-> {"success", "message"}, success |-> FALSE,
     message |-> message, detected_format |-> "", extracted_columns |-> <<>>,
     row_count |-> 0, file_base64 |-> EmptyStr]

\* lines 123-127
FlaskExceptionResponse(cause) ==
    FlaskFailure(HTTP_SERVER_ERROR,
                 FlaskMessage("ProcessingFailed", 0, cause, <<>>))

\* lines 97-101
ColumnsNotFoundResponse(df) ==
    FlaskFailure(HTTP_BAD_REQUEST,
                 FlaskMessage("ColumnsNotFound", 0, "", df.columns))

\* lines 106-121
FlaskSuccessResponse(detected_format, available_columns, extracted_df) ==
    [status |-> HTTP_OK,
     keys |-> {"success", "message", "detected_format", "extracted_columns",
               "row_count", "file_base64"},
     success |-> TRUE,
     message |-> FlaskMessage("Extracted", Len(extracted_df.rows), "", <<>>),
     detected_format |-> IF detected_format = FMT_NONE
                         THEN FMT_UNRECOGNIZED ELSE detected_format,
     extracted_columns |-> available_columns,
     row_count |-> Len(extracted_df.rows),
     file_base64 |-> b64encode(to_excel(extracted_df))]

NoFlaskLocals ==
    [read |-> FALSE, df |-> EmptyFrame, detected_format |-> FMT_NONE,
     columns_to_extract |-> <<>>, available_columns |-> <<>>]

\* lines 78-86 with read_excel_from_base64 (40-43) and read_excel_from_url
\* (45-49): the parsed frame, the exception raised, or the 400 answer
flask_read(data, nw) ==
    IF Truthy(data.file_base64)
    THEN IF ~b64decode_ok(data.file_base64)
         THEN [exc |-> "binascii.Error", df |-> EmptyFrame]
         ELSE LET df == read_excel(b64decode(data.file_base64), TRUE, 0)
              IN IF df.ok THEN [exc |-> "", df |-> df]
                 ELSE [exc |-> "read_excel", df |-> EmptyFrame]
    ELSE IF data.file_url.kind = "url"
    THEN IF nw.outcome = "timeout"
         THEN [exc |-> "requests.Timeout", df |-> EmptyFrame]
         ELSE IF nw.status_code >= HTTP_BAD_REQUEST
         THEN [exc |-> "requests.HTTPError", df |-> EmptyFrame]
         ELSE LET df == read_excel(nw.content, TRUE, 0)
              IN IF df.ok THEN [exc |-> "", df |-> df]
                 ELSE [exc |-> "read_excel", df |-> EmptyFrame]
    ELSE [exc |-> "no file", df |-> EmptyFrame]

\* lines 88-121: from the parsed frame to the response
flask_select(data, df, formats) ==
    LET det == detect_excel_format(df, formats)
        columns_to_extract == columns_to_extract_of(data.columns, det.columns)
        available_columns == available_columns_of(columns_to_extract, df)
        loc == [read |-> TRUE, df |-> df, detected_format |-> det.format_name,
                columns_to_extract |-> columns_to_extract,
                available_columns |-> available_columns]
    IN IF available_columns = <<>>
       THEN [resp |-> ColumnsNotFoundResponse(df), locals |-> loc]
       ELSE [resp |-> FlaskSuccessResponse(det.format_name, available_columns,
                          select_columns(df, available_columns)),
             locals |-> loc]

\* lines 62-127: the whole handler
flask_extract(data, nw, formats) ==
    IF data.body = "malformed"
    THEN [resp |-> FlaskExceptionResponse("get_json"),
          locals |-> NoFlaskLocals]
    ELSE IF data.body = "empty"
    THEN [resp |-> FlaskFailure(HTTP_BAD_REQUEST,
                                FlaskMessage("EmptyBody", 0, "", <<>>)),
          locals |-> NoFlaskLocals]
    ELSE IF data.body = "list"
    THEN [resp |-> FlaskExceptionResponse("AttributeError"),
          locals |-> NoFlaskLocals]
    ELSE LET got == flask_read(data, nw)
         IN IF got.exc = "no file"
            THEN [resp |-> FlaskFailure(HTTP_BAD_REQUEST,
                               FlaskMessage("ProvideFile", 0, "", <<>>)),
                  locals |-> NoFlaskLocals]
            ELSE IF got.exc # ""
            THEN [resp |-> FlaskExceptionResponse(got.exc),
                  locals |-> NoFlaskLocals]
            ELSE flask_select(data, got.df, formats)

(***************************************************************************)
(* The inputs the model draws                                              *)
(***************************************************************************)
FirstCells ==
    { StrCell(<<"Survey", "results", "2024">>),
      StrCell(<<"No1", "CeLiang", "ChengGuo", "Biao">>),
      StrCell(<<"Survey", "of", "results">>),
      StrCell(<<"XianLuMing">>),
      NaN }

DataKinds == {"num", "numstr", "text", "nan"}

Disc(i, kind) ==
    CASE kind = "num" -> NumCell(2000 + i)
      [] kind = "numstr" -> StrCell(<<"12">>)
      [] kind = "text" -> StrCell(<<"note">>)
      [] OTHER -> NaN

FirstRow(first, ncols) ==
    [c \in 1..ncols |->
        IF c = 1 THEN first ELSE StrCell(<<"col", ToString(c - 1)>>)]
MetaRow(j, ncols) == [c \in 1..ncols |-> NumCell(100 * j + c - 1)]
DataRow(i, kind, ncols) ==
    [c \in 1..ncols |->
        IF c - 1 = 2 THEN Disc(i, kind) ELSE NumCell(1000 + 100 * i + c - 1)]

\* a sheet: the first row, nmeta further leading rows, then the data rows
PosSheet(first, ncols, nmeta, kinds) ==
    SheetFile(<<FirstRow(first, ncols)>>
              \o [j \in 1..nmeta |-> MetaRow(j, ncols)]
              \o [i \in 1..Len(kinds) |-> DataRow(i, kinds[i], ncols)])

DataSeqs(n) == UNION {[1..k -> DataKinds] : k \in 0..n}

\* sheets as long as a survey table, up to MaxSurveyCols wide
LongSheets ==
    {PosSheet(f, w, m, ks) :
        f \in FirstCells, w \in 1..MaxSurveyCols, m \in MinMeta..MaxMeta,
        ks \in DataSeqs(MaxData)}

\* sheets as wide as a slope table, a header row and up to MaxWideRows rows
WideSheets ==
    {PosSheet(f, w, 0, ks) :
        f \in FirstCells, w \in 1..MaxCols, ks \in DataSeqs(MaxWideRows)}

PosFiles == {NoFile, SheetFile(<<>>)} \cup LongSheets \cup WideSheets

\* the files also offered for download
UrlFiles == {NoFile, SheetFile(<<>>)} \cup WideSheets

HdrNames ==
    {<<"XuHao">>, <<"ZhuangHao">>, <<"DianHao">>, <<"X_ZuoBiao">>, <<"QiTa">>}
CustomNames == {<<"XuHao">>, <<"BeiZhu">>, <<"X_ZuoBiao">>}

Distinct(s) == \A i, j \in DOMAIN s : i # j => s[i] # s[j]

Headers ==
    {h \in UNION {[1..n -> HdrNames] : n \in 1..MaxHdr} : Distinct(h)}

NameSheet(header, nrows) ==
    SheetFile(<<[k \in 1..Len(header) |-> StrCell(header[k])]>>
              \o [i \in 1..nrows |->
                    [k \in 1..Len(header) |->
                        StrCell(header[k] \o <<ToString(i)>>)]])

NameFiles ==
    {NoFile, SheetFile(<<>>)}
    \cup {NameSheet(h, n) : h \in Headers, n \in 0..MaxRows}

NoColumns == [given |-> FALSE, names |-> <<>>]
CustomColumns ==
    {NoColumns}
    \cup {[given |-> TRUE, names |-> c] :
            c \in UNION {[1..n -> CustomNames] : n \in 0..MaxCustom}}

FastReq(b64, url) == [file_base64 |-> b64, file_url |-> url]
FastCall(b64, url, nw) == [req |-> FastReq(b64, url), net |-> nw]

\* the ways a file reaches a handler, and the ways none does
FastCalls ==
    {FastCall(b64encode(f), NoUrl, NetUnused) : f \in PosFiles}
    \cup {FastCall(b64encode(f), SomeUrl, NetUnused) : f \in {NoFile}}
    \cup {FastCall(NoneStr, SomeUrl, NetAnswer(HTTP_OK, f)) : f \in UrlFiles}
    \cup {FastCall(GarbageStr, NoUrl, NetUnused),
          FastCall(NoneStr, SomeUrl, NetAnswer(404, NoFile)),
          FastCall(EmptyStr, SomeUrl, NetAnswer(HTTP_SERVER_ERROR, NoFile)),
          FastCall(NoneStr, SomeUrl, NetTimeout),
          FastCall(NoneStr, NoUrl, NetUnused),
          FastCall(EmptyStr, NoUrl, NetUnused)}

FlaskData(body, b64, url, columns) ==
    [body |-> body, file_base64 |-> b64, file_url |-> url,
     columns |-> columns]
FlaskCall(body, b64, url, columns, nw) ==
    [req |-> FlaskData(body, b64, url, columns), net |-> nw]

FlaskCalls ==
    {FlaskCall("dict", b64encode(f), NoUrl, c, NetUnused) :
        f \in NameFiles, c \in CustomColumns}
    \cup {FlaskCall("dict", NoneStr, SomeUrl, c, NetAnswer(HTTP_OK, f)) :
            f \in NameFiles, c \in {NoColumns}}
    \cup {FlaskCall(b, NoneStr, NoUrl, NoColumns, NetUnused) :
            b \in {"malformed", "empty", "list", "dict"}}
    \cup {FlaskCall("dict", GarbageStr, NoUrl, NoColumns, NetUnused),
          FlaskCall("dict", NoneStr, SomeUrl, NoColumns,
                    NetAnswer(404, NoFile)),
          FlaskCall("dict", EmptyStr, SomeUrl, NoColumns,
                    NetAnswer(HTTP_SERVER_ERROR, NoFile)),
          FlaskCall("dict", NoneStr, SomeUrl, NoColumns, NetTimeout)}

(***************************************************************************)
(* The state machine: one request at a time                                *)
(***************************************************************************)
Init ==
    /\ svc = "idle"
    /\ request = FastReq(NoneStr, NoUrl)
    /\ net = NetUnused
    /\ response = ExceptionResponse("")
    /\ locals = NoLocals
    /\ clock = 0
    /\ EXCEL_FORMATS = EXCEL_FORMATS_TABLE
    /\ slots = <<>>

\* POST /extract of excel_api_service.py
FastApiExtract ==
    /\ svc = "idle"
    /\ \E c \in FastCalls, now \in 0..MaxClock :
        LET out == fastapi_extract(c.req, c.net, now)
        IN /\ svc' = "fastapi"
           /\ request' = c.req
           /\ net' = c.net
           /\ response' = out.resp
           /\ locals' = out.locals
           /\ clock' = now
           /\ UNCHANGED <<EXCEL_FORMATS, slots>>

\* POST /extract of flask_app.py
FlaskExtract ==
    /\ svc = "idle"
    /\ \E c \in FlaskCalls :
        LET out == flask_extract(c.req, c.net, EXCEL_FORMATS)
        IN /\ svc' = "flask"
           /\ request' = c.req
           /\ net' = c.net
           /\ response' = out.resp
           /\ locals' = out.locals
           /\ EXCEL_FORMATS' =
                 IF out.locals.read
                 THEN formats_after_select(c.req, out.locals.df,
                                           EXCEL_FORMATS)
                 ELSE EXCEL_FORMATS
           /\ UNCHANGED <<clock, slots>>

\* the response is sent; nothing of the request outlives it
Respond ==
    /\ svc # "idle"
    /\ svc' = "idle"
    /\ request' = FastReq(NoneStr, NoUrl)
    /\ net' = NetUnused
    /\ response' = ExceptionResponse("")
    /\ locals' = NoLocals
    /\ clock' = 0
    /\ UNCHANGED <<EXCEL_FORMATS, slots>>

Next == FastApiExtract \/ FlaskExtract \/ Respond

Spec == Init /\ [][Next]_vars

(***************************************************************************)
(* The state machine: NSlots requests in flight at once.  The FastAPI      *)
(* handler is an `async def` that never awaits, so it runs to its return   *)
(* in one step; Flask handlers run in threads and interleave between       *)
(* reading the file and selecting the columns.                             *)
(***************************************************************************)
NSlots == 2

ConcFastCalls ==
    {FastCall(b64encode(PosSheet(f, 5, 6, <<k>>)), NoUrl, NetUnused) :
        f \in {StrCell(<<"Survey", "results", "2024">>)},
        k \in {"num", "text"}}
    \cup {FastCall(b64encode(PosSheet(StrCell(<<"XianLuMing">>), 1, 0,
                                      <<"num">>)), NoUrl, NetUnused),
          FastCall(b64encode(PosSheet(
                       StrCell(<<"No1", "CeLiang", "ChengGuo", "Biao">>),
                       2, 0, <<>>)), NoUrl, NetUnused),
          FastCall(b64encode(NoFile), NoUrl, NetUnused),
          FastCall(GarbageStr, NoUrl, NetUnused),
          FastCall(NoneStr, SomeUrl, NetAnswer(404, NoFile)),
          FastCall(NoneStr, SomeUrl, NetTimeout),
          FastCall(NoneStr, NoUrl, NetUnused)}

ConcFlaskCalls ==
    {FlaskCall("dict", b64encode(NameSheet(h, 1)), NoUrl, c, NetUnused) :
        h \in {<<<<"XuHao">>, <<"ZhuangHao">>>>, <<<<"QiTa">>>>},
        c \in {NoColumns, [given |-> TRUE, names |-> <<<<"BeiZhu">>>>]}}
    \cup {FlaskCall("dict", NoneStr, SomeUrl, NoColumns,
                    NetAnswer(HTTP_OK, NameSheet(
                        <<<<"DianHao">>, <<"X_ZuoBiao">>>>, 0))),
          FlaskCall("dict", b64encode(NoFile), NoUrl, NoColumns, NetUnused),
          FlaskCall("dict", GarbageStr, NoUrl, NoColumns, NetUnused),
          FlaskCall("dict", NoneStr, SomeUrl, NoColumns,
                    NetAnswer(404, NoFile)),
          FlaskCall("dict", NoneStr, SomeUrl, NoColumns, NetTimeout),
          FlaskCall("dict", NoneStr, NoUrl, NoColumns, NetUnused),
          FlaskCall("malformed", NoneStr, NoUrl, NoColumns, NetUnused),
          FlaskCall("empty", NoneStr, NoUrl, NoColumns, NetUnused),
          FlaskCall("list", NoneStr, NoUrl, NoColumns, NetUnused)}

IdleSlot ==
    [pc |-> "idle", svc |-> "idle", req |-> FastReq(NoneStr, NoUrl),
     net |-> NetUnused, df |-> EmptyFrame, resp |-> ExceptionResponse(""),
     at |-> 0, sent |-> 0]

InitConc ==
    /\ svc = "idle"
    /\ request = FastReq(NoneStr, NoUrl)
    /\ net = NetUnused
    /\ response = ExceptionResponse("")
    /\ locals = NoLocals
    /\ clock = 0
    /\ EXCEL_FORMATS = EXCEL_FORMATS_TABLE
    /\ slots = [i \in 1..NSlots |-> IdleSlot]

\* where a request in flight stands: each handler runs from its entry to a
\* return, so a request that has not returned always has a next step
CanFastHandle(slot) == slot.pc = "received" /\ slot.svc = "fastapi"
CanFlaskRead(slot) == slot.pc = "received" /\ slot.svc = "flask"
CanFlaskSelect(slot) == slot.pc = "parsed" /\ slot.svc = "flask"

\* a request arrives at either service
Receive(i) ==
    /\ slots[i].pc = "idle"
    /\ \/ \E c \in ConcFastCalls :
             slots' = [slots EXCEPT ![i] =
                 [IdleSlot EXCEPT !.pc = "received", !.svc = "fastapi",
                                  !.req = c.req, !.net = c.net]]
       \/ \E c \in ConcFlaskCalls :
             slots' = [slots EXCEPT ![i] =
                 [IdleSlot EXCEPT !.pc = "received", !.svc = "flask",
                                  !.req = c.req, !.net = c.net]]
    /\ UNCHANGED <<svc, request, net, response, locals, clock, EXCEL_FORMATS>>

\* excel_api_service.py lines 62-144, start to return
FastHandle(i) ==
    /\ CanFastHandle(slots[i])
    /\ \E now \in 0..MaxClock :
          slots' = [slots EXCEPT ![i] =
              [@ EXCEPT !.pc = "done", !.sent = @ + 1, !.at = now,
                        !.resp = fastapi_extract(slots[i].req, slots[i].net,
                                                 now).resp]]
    /\ UNCHANGED <<svc, request, net, response, locals, clock, EXCEL_FORMATS>>

\* flask_app.py lines 64-86: the body and the file are read; every failure
\* here already is the response
FlaskRead(i) ==
    /\ CanFlaskRead(slots[i])
    /\ LET data == slots[i].req
           early == flask_extract(data, slots[i].net, EXCEL_FORMATS)
       IN IF data.body = "dict" /\ flask_read(data, slots[i].net).exc = ""
          THEN slots' = [slots EXCEPT ![i] =
                   [@ EXCEPT !.pc = "parsed",
                             !.df = flask_read(data, slots[i].net).df]]
          ELSE slots' = [slots EXCEPT ![i] =
                   [@ EXCEPT !.pc = "done", !.sent = @ + 1,
                             !.resp = early.resp]]
    /\ UNCHANGED <<svc, request, net, response, locals, clock, EXCEL_FORMATS>>

\* flask_app.py lines 88-121: detection reads EXCEL_FORMATS as it is now
FlaskSelect(i) ==
    /\ CanFlaskSelect(slots[i])
    /\ slots' = [slots EXCEPT ![i] =
          [@ EXCEPT !.pc = "done", !.sent = @ + 1,
                    !.resp = flask_select(slots[i].req, slots[i].df,
                                          EXCEL_FORMATS).resp]]
    /\ EXCEL_FORMATS' =
          formats_after_select(slots[i].req, slots[i].df, EXCEL_FORMATS)
    /\ UNCHANGED <<svc, request, net, response, locals, clock>>

\* the response is sent and the request's state is dropped
Deliver(i) ==
    /\ slots[i].pc = "done"
    /\ slots' = [slots EXCEPT ![i] = IdleSlot]
    /\ UNCHANGED <<svc, request, net, response, locals, clock, EXCEL_FORMATS>>

Step(i) == FastHandle(i) \/ FlaskRead(i) \/ FlaskSelect(i)

NextConc ==
    \E i \in 1..NSlots : Receive(i) \/ Step(i) \/ Deliver(i)

SpecConc == InitConc /\ [][NextConc]_vars

(***************************************************************************)
(* Properties of the two services                                          *)
(***************************************************************************)
\* the file the request's source resolves to
GivenFile ==
    IF request.file_base64.kind = "b64" THEN request.file_base64.data
    ELSE net.content

\* the first cell as text, "" for an empty sheet
GivenFirstCell ==
    IF GivenFile.rows = <<>> THEN <<>> ELSE PyStr(GivenFile.rows[1][1])

\* the number of header columns of the given sheet
GivenWidth == IF GivenFile.rows = <<>> THEN 0 ELSE Len(GivenFile.rows[1])

HasMarker(text) ==
    \E i \in 1..Len(text) :
        \/ i + 1 <= Len(text) /\ text[i] = "Survey" /\ text[i + 1] = "results"
        \/ i + 2 <= Len(text) /\ text[i] = "CeLiang"
           /\ text[i + 1] = "ChengGuo" /\ text[i + 2] = "Biao"

FastParsed == svc = "fastapi" /\ GivenFile.parses
FastMarked == FastParsed /\ HasMarker(GivenFirstCell)

\* the rows after the 7 leading rows, and those numeric in column index 2
RowsAfterSkip == SubSeq(GivenFile.rows, 8, Len(GivenFile.rows))
NumericAfterSkip ==
    {r \in 1..Len(RowsAfterSkip) :
        /\ Len(RowsAfterSkip[r]) > 2
        /\ \/ RowsAfterSkip[r][3].t = "num"
           \/ RowsAfterSkip[r][3] = StrCell(<<"12">>)}

\* C1: a response of the position-based service is fully filled (success,
\* a non-empty artifact that decodes to a table with column_names as header
\* and row_count rows, a non-empty filename, row_count the number of
\* extracted rows, column_names the output column names) or fully empty
\* (no success, file_base64 = "", filename = "", row_count = 0).
FullyFilledOrEmpty ==
    svc = "fastapi" =>
        IF response.success
        THEN /\ response.file_base64.kind = "b64"
             /\ response.filename # <<>>
             /\ locals.extracted
             /\ response.row_count = Len(locals.extracted_df.rows)
             /\ response.row_count > 0
             /\ response.column_names = locals.extracted_df.columns
             /\ response.column_names # <<>>
             /\ LET back == read_excel(b64decode(response.file_base64),
                                       TRUE, 0)
                IN /\ back.columns = response.column_names
                   /\ Len(back.rows) = response.row_count
        ELSE /\ response.file_base64 = EmptyStr
             /\ response.filename = <<>>
             /\ response.row_count = 0
             /\ response.column_names = <<>>

FilledResponseSeen ==
    svc = "fastapi" /\ response.success /\ response.row_count = 2

\* C2 (as claimed): whenever the file parses and its first cell holds a
\* marker, the reported format_type is the survey format.
MarkerAlwaysSurvey == FastMarked => response.format_type = FMT_SURVEY

\* C3: whenever the file parses and its first cell holds no marker (an empty
\* sheet included), the reported format_type is the slope format, never
\* "Unknown".
NoMarkerAlwaysSlope ==
    (FastParsed /\ ~HasMarker(GivenFirstCell)) =>
        /\ response.format_type = FMT_SLOPE
        /\ locals.classified /\ ~locals.is_survey

NearMissSeen ==
    /\ FastParsed
    /\ GivenFirstCell = <<"Survey", "of", "results">>
    /\ response.format_type = FMT_SLOPE
    /\ response.success

\* C4 (as claimed): for a marked file with N rows after the 7 leading rows,
\* M of them numeric in column index 2, the result table has exactly those M
\* rows in their order, each holding the source row's cells at positions
\* 1, 2, 3, 4 under the four output names.
SurveyExtractionKeepsNumericRows ==
    FastMarked =>
        /\ locals.extracted
        /\ locals.extracted_df.columns = survey_column_names
        /\ Len(locals.extracted_df.rows) = Cardinality(NumericAfterSkip)
        /\ locals.extracted_df.rows =
              [k \in 1..Len(locals.extracted_df.rows) |->
                  LET r == CHOOSE r \in NumericAfterSkip :
                             Cardinality({q \in NumericAfterSkip : q < r})
                                = k - 1
                      src == RowsAfterSkip[r]
                  IN <<src[2], src[3], src[4], src[5]>>]

\* The survey statements on the tables the extraction does not raise on: at
\* least 5 columns and at least one row after the 7 leading rows.  On these
\* the format is reported, the numeric rows are kept in order, and an
\* extraction of no row is the no-data answer.
WellFormedSurvey == FastMarked /\ GivenWidth >= 5 /\ Len(RowsAfterSkip) >= 1

WellFormedSurveyIsExtracted ==
    WellFormedSurvey =>
        /\ response.format_type = FMT_SURVEY
        /\ locals.extracted
        /\ locals.extracted_df.columns = survey_column_names
        /\ Len(locals.extracted_df.rows) = Cardinality(NumericAfterSkip)
        /\ \A k \in 1..Len(locals.extracted_df.rows) :
              \E r \in NumericAfterSkip :
                 /\ Cardinality({q \in NumericAfterSkip : q < r}) = k - 1
                 /\ locals.extracted_df.rows[k] =
                       SubSeq(RowsAfterSkip[r], 2, 5)
        /\ NumericAfterSkip = {} =>
              /\ ~response.success
              /\ response.message.kind = "NoDataExtracted"

\* every other marked file is answered through the except clause
MalformedSurveyIsUnknown ==
    (FastMarked /\ ~WellFormedSurvey) =>
        /\ response.format_type = FMT_UNKNOWN
        /\ response.message.kind = "ParseExcelFailed"
        /\ response.message.cause = "IndexError"

\* the fixed position-to-name list of the slope format
SlopePairs ==
    << <<0, "XianLuMing">>, <<5, "ChaoQianWa">>, <<8, "ShiCeX_LiCheng">>,
       <<9, "ShiCeY_PianJu">>, <<10, "ShiCeZ_ZuoBiao">>, <<11, "LiCheng">>,
       <<12, "PianJu">>, <<13, "SheJiBiaoGao">> >>

SlopeReached == svc = "fastapi" /\ locals.classified /\ ~locals.is_survey

\* C5: for a slope header of C columns the selected positions are exactly
\* the listed positions below C, in list order, and the k-th output name is
\* the name the fixed list pairs with the k-th selected position; the output
\* has as many columns as there are valid positions (8 from C = 14 on).
SlopeNamesFollowPositions ==
    SlopeReached =>
        LET valid == {k \in 1..Len(SlopePairs) : SlopePairs[k][1] < GivenWidth}
            sel == locals.valid_indices
            out == locals.extracted_df.columns
        IN /\ locals.extracted
           /\ Len(sel) = Cardinality(valid)
           /\ Len(out) = Cardinality(valid)
           /\ GivenWidth >= 14 => Len(out) = 8
           /\ \A k \in 1..Len(sel) :
                 /\ k \in valid
                 /\ sel[k] = SlopePairs[k][1]
                 /\ out[k] = <<SlopePairs[k][2]>>
                 /\ \A r \in 1..Len(locals.extracted_df.rows) :
                       locals.extracted_df.rows[r][k] =
                          GivenFile.rows[r + 1][sel[k] + 1]

ClampedSlopeSeen ==
    /\ SlopeReached
    /\ GivenWidth = 9
    /\ locals.valid_indices = <<0, 5, 8>>
    /\ response.success
    /\ response.column_names =
          <<<<"XianLuMing">>, <<"ChaoQianWa">>, <<"ShiCeX_LiCheng">>>>

\* C6 (as claimed): a marked file in which no row after the 7 leading rows is
\* numeric in column index 2 (N >= 0 such rows) is answered with
\* success = false, row_count = 0, the survey format and the no-data message.
ZeroSurveyRowsIsNoData ==
    (FastMarked /\ NumericAfterSkip = {}) =>
        /\ response.success = FALSE
        /\ response.row_count = 0
        /\ response.format_type = FMT_SURVEY
        /\ response.message.kind = "NoDataExtracted"

\* the request carries a source
HasBody == svc = "fastapi" \/ (svc = "flask" /\ request.body = "dict")
NoSource == ~Truthy(request.file_base64) /\ request.file_url.kind = "empty"
FetchFailed ==
    /\ ~Truthy(request.file_base64)
    /\ request.file_url.kind = "url"
    /\ (net.outcome = "timeout" \/ net.status_code # 200)

\* C7 (as claimed): in both services an input error (no usable source, a
\* fetch answered with a non-success status, a fetch that times out) is
\* answered with a 4xx status.
InputErrorIsClientError ==
    (HasBody /\ (NoSource \/ FetchFailed)) =>
        (response.status >= 400 /\ response.status <= 499)

\* C8 (as claimed): in the name-based service, when columns were selected
\* and the extracted table has no rows, the answer has success = false and
\* a no-data message.
FlaskZeroRowsIsNoData ==
    (/\ svc = "flask"
     /\ locals.read
     /\ locals.available_columns # <<>>
     /\ Len(locals.df.rows) = 0) =>
        /\ response.success = FALSE
        /\ response.message.kind = "NoDataExtracted"

\* the header the name-based service parses from the given file
GivenHeader ==
    IF GivenFile.rows = <<>> THEN <<>>
    ELSE [k \in 1..Len(GivenFile.rows[1]) |-> GivenFile.rows[1][k].v]

\* the names asked for: the caller's non-empty list, else the detected
\* layout's list, else the whole header
Requested ==
    LET hdr == Range(GivenHeader)
    IN IF request.columns.given /\ Len(request.columns.names) > 0
       THEN request.columns.names
       ELSE IF {<<"XuHao">>, <<"ZhuangHao">>} \subseteq hdr
       THEN <<<<"XuHao">>, <<"ZhuangHao">>, <<"JianChaShiJian">>,
              <<"ZeRenRen">>, <<"WenTiMiaoShu">>, <<"ZhengGaiCuoShi">>>>
       ELSE IF {<<"DianHao">>, <<"X_ZuoBiao">>} \subseteq hdr
       THEN <<<<"DianHao">>, <<"X_ZuoBiao">>, <<"Y_ZuoBiao">>,
              <<"GaoCheng">>, <<"BeiZhu">>>>
       ELSE GivenHeader

\* s is t with some elements dropped, order kept, and keeps every element
\* of t that is in `present`
RECURSIVE IsFilterOf(_, _, _)
IsFilterOf(s, t, present) ==
    IF t = <<>> THEN s = <<>>
    ELSE IF Head(t) \in present
    THEN s # <<>> /\ Head(s) = Head(t) /\ IsFilterOf(Tail(s), Tail(t), present)
    ELSE IsFilterOf(s, Tail(t), present)

FlaskSelected == svc = "flask" /\ locals.read

AloneResponse(slot) ==
    IF slot.svc = "fastapi"
    THEN fastapi_extract(slot.req, slot.net, slot.at).resp
    ELSE flask_extract(slot.req, slot.net, EXCEL_FORMATS_TABLE).resp

StructuredResponse(slot) ==
    /\ slot.resp.success \in BOOLEAN
    /\ slot.resp.message.kind \in
          {"ParseExcelFailed", "NoDataExtracted", "Recognized",
           "ProcessingFailed", "EmptyBody", "ProvideFile", "ColumnsNotFound",
           "Extracted"}
    /\ slot.resp.status \in {200, 400, 500}
    /\ slot.resp.message.kind \in {"ParseExcelFailed", "ProcessingFailed"}
          => ~slot.resp.success /\ slot.resp.message.cause # ""

\* C9: every request in flight either has a next step to take or has ended
\* with exactly one structured response, whatever failed; that response is
\* the one the request gets when served alone (for the same request body,
\* the same answer of the file's host and the same instant of
\* datetime.now()), whatever the other requests in flight or before it did;
\* and the format table stays as loaded.
RequestsAreIndependent ==
    /\ EXCEL_FORMATS = EXCEL_FORMATS_TABLE
    /\ \A i \in DOMAIN slots :
          /\ slots[i].pc \in {"received", "parsed"} =>
                /\ slots[i].sent = 0
                /\ \/ CanFastHandle(slots[i])
                   \/ CanFlaskRead(slots[i])
                   \/ CanFlaskSelect(slots[i])
          /\ slots[i].pc = "done" =>
                /\ slots[i].sent = 1
                /\ StructuredResponse(slots[i])
                /\ slots[i].resp = AloneResponse(slots[i])

FailureBesideSuccessSeen ==
    /\ DOMAIN slots = 1..NSlots
    /\ slots[1].pc = "done" /\ slots[1].svc = "flask"
    /\ slots[1].resp.status = 400
    /\ slots[1].resp.message.kind = "ColumnsNotFound"
    /\ slots[2].pc = "done" /\ slots[2].svc = "flask"
    /\ slots[2].resp.success
    /\ slots[2].resp.detected_format = FMT_SLOPE

====
